---- MODULE Spec2Model ----
(***************************************************************************)
(* Job-portal backend: phone-number OTP authentication, session            *)
(* credentials and the profile-completion score (models/User.js,           *)
(* routes/auth.js, routes/user.js, routes/profile.js, middleware/auth.js). *)
(*                                                                         *)
(* Time is counted in minutes.  The profile store is the users collection; *)
(* a request handler runs from its first read to its response in one step, *)
(* except in SpecRace, where a handler waits at `await user.save()` while  *)
(* other requests run (inflight).  nodeEnv is process.env.NODE_ENV.        *)
(***************************************************************************)
EXTENDS Integers, Sequences, FiniteSets, TLC

VARIABLES now, users, hist, held, response, nodeEnv, inflight

vars == <<now, users, hist, held, response, nodeEnv, inflight>>

(***************************************************************************)
(* Program constants                                                       *)
(***************************************************************************)
\* generateOTP: expiresAt = Date.now() + 10 * 60 * 1000
OtpTtlMinutes == 10
\* verifyOTP: this.otp.attempts >= 3
MaxOtpAttempts == 3
\* calculateProfileCompletion: let total = 10
TotalSections == 10
\* calculateProfileCompletion: profileCompleted = percentage >= 80
CompletedThreshold == 80
\* jwt.sign(..., { expiresIn: process.env.JWT_EXPIRE || '30d' }), in minutes
JwtExpireMinutes == 43200

(***************************************************************************)
(* Bounds of the model                                                     *)
(***************************************************************************)
\* the minutes at which requests arrive while a challenge is pending: before,
\* at and after the expiry of a challenge issued at minute 0 or 5
OtpInstants == {0, 5, 10, 11, 15}

\* the ObjectIds the store can hand out
Ids == {1, 2}
\* the phone numbers requests are made for; PhoneOf[i] is the number of the
\* profile stored under id i
PhoneOf == <<"+10000000001", "+10000000002">>
Phones == {PhoneOf[i] : i \in Ids}
\* the number of different codes the generator returns in the model
NumCodes == 2
\* Math.floor(100000 + Math.random() * 900000).toString(): some of the codes
\* the generator can return, the least and the greatest first
CodeSamples == <<"100000", "999999", "548213", "271828">>
Codes == {CodeSamples[k] : k \in 1..NumCodes}
Channels == {"sms", "whatsapp"}

(***************************************************************************)
(* The User document                                                       *)
(***************************************************************************)
\* otp: { code, expiresAt, attempts: default 0 } with no code set
NoOtp == [code |-> "", expiresAt |-> 0, attempts |-> 0]
\* lastLogin of a profile that never logged in
Never == -1
\* the place of a document that is not in the collection
NoDoc == [id |-> 0]
\* the values of process.env.NODE_ENV the server is started with
NodeEnvs == {"development", "production"}
\* a handler that is not suspended at an await
NoRequest == [op |-> "none"]
\* the requests the server can have suspended at the same time
Reqs == {1, 2}

\* new User({ phoneNumber, fullName, city, experienceLevel }) with the
\* schema defaults
NewUser(i, phone, name, cityName, level) ==
    [ id |-> i,
      phoneNumber |-> phone,
      isPhoneVerified |-> FALSE,
      email |-> "",
      fullName |-> name,
      dateOfBirth |-> "",
      gender |-> "",
      city |-> cityName,
      selectedLanguage |-> "english",
      preferredLocations |-> <<>>,
      willingToRelocate |-> FALSE,
      workAvailability |-> {},
      experienceLevel |-> level,
      totalExperienceYears |-> 0,
      skills |-> <<>>,
      jobCategories |-> {},
      accommodationRequired |-> FALSE,
      notificationSettings |-> [allowNotifications |-> TRUE,
                                marketingNotifications |-> FALSE],
      profileCompleted |-> FALSE,
      profileCompletionPercentage |-> 0,
      otp |-> NoOtp,
      isActive |-> TRUE,
      lastLogin |-> Never ]

\* Math.round(n / d) for n >= 0, d > 0: halves round up
MathRound(n, d) == (2 * n + d) \div (2 * d)

B2N(b) == IF b THEN 1 ELSE 0

\* the ten `if (...) completed++` of calculateProfileCompletion
CompletedCount(doc) ==
      B2N(doc.fullName # "")
    + B2N(doc.email # "")
    + B2N(doc.dateOfBirth # "")
    + B2N(doc.gender # "")
    + B2N(doc.city # "")
    + B2N(Len(doc.preferredLocations) > 0)
    + B2N(Cardinality(doc.workAvailability) > 0)
    + B2N(doc.experienceLevel # "")
    + B2N(Len(doc.skills) > 0)
    + B2N(Cardinality(doc.jobCategories) > 0)

Percentage(doc) == MathRound(CompletedCount(doc) * 100, TotalSections)

\* a mutant: the flag set from the count of sections instead of the percentage
CalculateProfileCompletionFlagFromCount(doc) ==
    [doc EXCEPT !.profileCompletionPercentage = Percentage(doc),
                !.profileCompleted = CompletedCount(doc) >= CompletedThreshold]

\* userSchema.methods.calculateProfileCompletion
calculateProfileCompletion(doc) ==
    [doc EXCEPT !.profileCompletionPercentage = Percentage(doc),
                !.profileCompleted = Percentage(doc) >= CompletedThreshold]

\* the schema's required validators: a required String fails on ''
ValidateDoc(doc) ==
    /\ doc.phoneNumber # ""
    /\ doc.fullName # ""
    /\ doc.city # ""
    /\ doc.selectedLanguage # ""
    /\ doc.experienceLevel \in {"fresher", "experienced"}

\* this.isModified(): the document differs from what was loaded or is new
IsModified(doc) == users[doc.id] # doc

\* a mutant: the pre-save hook left out
PreSaveNoRescore(doc) == doc

\* userSchema.pre('save')
PreSave(doc) == IF IsModified(doc) THEN calculateProfileCompletion(doc) ELSE doc

\* a mutant: the email index is not unique
IndexOkPhoneOnly(doc) ==
    \A j \in Ids \ {doc.id} :
        users[j] # NoDoc => users[j].phoneNumber # doc.phoneNumber

\* the unique indexes: phoneNumber (unique) and email (unique, sparse)
IndexOk(doc) ==
    \A j \in Ids \ {doc.id} :
        users[j] # NoDoc =>
            /\ users[j].phoneNumber # doc.phoneNumber
            /\ doc.email # "" => users[j].email # doc.email

\* user.save(): validation, then the pre-save hook, then the write
SaveOk(doc) == ValidateDoc(doc) /\ IndexOk(doc)
Saved(doc) == [users EXCEPT ![doc.id] = PreSave(doc)]

\* User.findOne({ phoneNumber })
FindByPhone(phone) ==
    LET hits == {i \in Ids : users[i] # NoDoc /\ users[i].phoneNumber = phone}
    IN IF hits = {} THEN NoDoc ELSE users[CHOOSE i \in hits : TRUE]

\* an ObjectId no stored document has
FreshIds == {i \in Ids : users[i] = NoDoc}

(***************************************************************************)
(* OTP methods                                                             *)
(***************************************************************************)
\* a mutant: a challenge that is still there is kept
GenerateOTPKeepOld(doc, code, t) ==
    IF doc.otp.code # "" THEN doc
    ELSE [doc EXCEPT !.otp = [code |-> code, expiresAt |-> t + OtpTtlMinutes,
                              attempts |-> 0]]

\* a mutant: the attempt counter of the challenge replaced is carried over
GenerateOTPKeepAttempts(doc, code, t) ==
    [doc EXCEPT !.otp = [code |-> code, expiresAt |-> t + OtpTtlMinutes,
                         attempts |-> doc.otp.attempts]]

\* a mutant: a new challenge makes the phone unverified again
GenerateOTPResetVerified(doc, code, t) ==
    [doc EXCEPT !.otp = [code |-> code, expiresAt |-> t + OtpTtlMinutes,
                         attempts |-> 0],
                !.isPhoneVerified = FALSE]

\* userSchema.methods.generateOTP, with the code Math.random() gave
generateOTP(doc, code, t) ==
    [doc EXCEPT !.otp = [code |-> code, expiresAt |-> t + OtpTtlMinutes,
                         attempts |-> 0]]

OtpResult(doc, ok, msg) == [doc |-> doc, success |-> ok, message |-> msg]

\* a mutant: the attempts check left out
VerifyOTPNoAttemptLimit(doc, inputOTP, t) ==
    IF doc.otp.code = "" THEN OtpResult(doc, FALSE, "NoChallenge")
    ELSE IF doc.otp.expiresAt < t THEN OtpResult(doc, FALSE, "Expired")
    ELSE IF doc.otp.code # inputOTP
         THEN OtpResult([doc EXCEPT !.otp.attempts = @ + 1], FALSE, "InvalidCode")
    ELSE OtpResult([doc EXCEPT !.isPhoneVerified = TRUE, !.otp = NoOtp],
                   TRUE, "ok")

\* a mutant: the challenge kept after a match
VerifyOTPKeepChallenge(doc, inputOTP, t) ==
    IF doc.otp.code = "" THEN OtpResult(doc, FALSE, "NoChallenge")
    ELSE IF doc.otp.expiresAt < t THEN OtpResult(doc, FALSE, "Expired")
    ELSE IF doc.otp.attempts >= MaxOtpAttempts
         THEN OtpResult(doc, FALSE, "AttemptsExhausted")
    ELSE IF doc.otp.code # inputOTP
         THEN OtpResult([doc EXCEPT !.otp.attempts = @ + 1], FALSE, "InvalidCode")
    ELSE OtpResult([doc EXCEPT !.isPhoneVerified = TRUE], TRUE, "ok")

\* a mutant: the phone left unverified after a match
VerifyOTPNoFlag(doc, inputOTP, t) ==
    IF doc.otp.code = "" THEN OtpResult(doc, FALSE, "NoChallenge")
    ELSE IF doc.otp.expiresAt < t THEN OtpResult(doc, FALSE, "Expired")
    ELSE IF doc.otp.attempts >= MaxOtpAttempts
         THEN OtpResult(doc, FALSE, "AttemptsExhausted")
    ELSE IF doc.otp.code # inputOTP
         THEN OtpResult([doc EXCEPT !.otp.attempts = @ + 1], FALSE, "InvalidCode")
    ELSE OtpResult([doc EXCEPT !.otp = NoOtp], TRUE, "ok")

\* a mutant: the attempts check made before the expiry check
VerifyOTPAttemptsFirst(doc, inputOTP, t) ==
    IF doc.otp.code = "" THEN OtpResult(doc, FALSE, "NoChallenge")
    ELSE IF doc.otp.attempts >= MaxOtpAttempts
         THEN OtpResult(doc, FALSE, "AttemptsExhausted")
    ELSE IF doc.otp.expiresAt < t THEN OtpResult(doc, FALSE, "Expired")
    ELSE IF doc.otp.code # inputOTP
         THEN OtpResult([doc EXCEPT !.otp.attempts = @ + 1], FALSE, "InvalidCode")
    ELSE OtpResult([doc EXCEPT !.isPhoneVerified = TRUE, !.otp = NoOtp],
                   TRUE, "ok")

\* a mutant: the presented code not compared with the stored one
VerifyOTPAnyCode(doc, inputOTP, t) ==
    IF doc.otp.code = "" THEN OtpResult(doc, FALSE, "NoChallenge")
    ELSE IF doc.otp.expiresAt < t THEN OtpResult(doc, FALSE, "Expired")
    ELSE IF doc.otp.attempts >= MaxOtpAttempts
         THEN OtpResult(doc, FALSE, "AttemptsExhausted")
    ELSE OtpResult([doc EXCEPT !.isPhoneVerified = TRUE, !.otp = NoOtp],
                   TRUE, "ok")

\* userSchema.methods.verifyOTP at time t; the messages 'No OTP found',
\* 'OTP has expired', 'Maximum OTP attempts exceeded', 'Invalid OTP' are
\* named NoChallenge, Expired, AttemptsExhausted, InvalidCode
verifyOTP(doc, inputOTP, t) ==
    IF doc.otp.code = "" THEN OtpResult(doc, FALSE, "NoChallenge")
    ELSE IF doc.otp.expiresAt < t THEN OtpResult(doc, FALSE, "Expired")
    ELSE IF doc.otp.attempts >= MaxOtpAttempts
         THEN OtpResult(doc, FALSE, "AttemptsExhausted")
    ELSE IF doc.otp.code # inputOTP
         THEN OtpResult([doc EXCEPT !.otp.attempts = @ + 1], FALSE, "InvalidCode")
    ELSE OtpResult([doc EXCEPT !.isPhoneVerified = TRUE, !.otp = NoOtp],
                   TRUE, "ok")

(***************************************************************************)
(* Credentials, dispatch and responses                                     *)
(***************************************************************************)
NoToken == [id |-> 0, phoneNumber |-> "", exp |-> 0, sig |-> ""]

\* jwt.sign({ id, phoneNumber }, JWT_SECRET, { expiresIn }) at time t
JwtSign(doc, t) ==
    [id |-> doc.id, phoneNumber |-> doc.phoneNumber,
     exp |-> t + JwtExpireMinutes, sig |-> "JWT_SECRET"]

NoSend == [to |-> "", code |-> "", channel |-> "", outcome |-> "none"]

\* sendOTP(phoneNumber, otp, method): resolves, or throws when Twilio is not
\* configured or the API call fails
sendOTP(phone, code, method, delivered) ==
    [to |-> phone, code |-> code, channel |-> method,
     outcome |-> IF delivered THEN "delivered" ELSE "failed"]

\* the answer of the request handled in the step: the operation, the phone
\* number and code or the credential it was called with, the outcome, the
\* credential minted, the message handed to the dispatcher, the id of the
\* profile it worked on, the completion percentage and the document or
\* section returned, data.otp of a send-otp or resend-otp answer ("" when
\* the answer has none), and the channel a send-otp or resend-otp request
\* asked for
NoResponse ==
    [op |-> "none", phone |-> "", code |-> "", cred |-> NoToken, status |-> "",
     token |-> NoToken, sent |-> NoSend, id |-> 0, pct |-> -1, data |-> NoDoc,
     otp |-> "", method |-> ""]

Respond(opName, phone, st) ==
    [NoResponse EXCEPT !.op = opName, !.phone = phone, !.status = st]

\* the answer of a send-otp or resend-otp request for a channel
RespondIssue(opName, phone, method, st) ==
    [Respond(opName, phone, st) EXCEPT !.method = method]

Min(a, b) == IF a < b THEN a ELSE b

\* what has happened to a profile's challenges: the code the latest issue
\* generated and the one the issue before it generated, the code the latest
\* successful verification accepted since then, the number of verifications
\* since the latest issue that presented a mismatching code, the number of
\* them that were answered InvalidCode, and whether a logout request has
\* presented a credential naming the profile
NoHist ==
    [prevCode |-> "", lastCode |-> "", usedCode |-> "", mism |-> 0,
     invalid |-> 0, loggedOut |-> FALSE]

HistIssued(h, code) ==
    [prevCode |-> h.lastCode, lastCode |-> code, usedCode |-> "", mism |-> 0,
     invalid |-> 0, loggedOut |-> h.loggedOut]

(***************************************************************************)
(* POST /send-otp, /resend-otp, /verify-otp                                *)
(***************************************************************************)
\* data.otp of the answer: the 200 of the try branch has no otp; the 200 of
\* the catch (smsError) branch has
\* otp: process.env.NODE_ENV === 'development' ? otp : undefined
DevModeOtp(code, delivered) ==
    IF ~delivered /\ nodeEnv = "development" THEN code ELSE ""

\* a mutant: a failed dispatch rolls the challenge back and fails the request
IssueAndDispatchRollback(opName, user, phone, method, code, delivered) ==
    LET doc == generateOTP(user, code, now)
    IN IF ~SaveOk(doc) \/ ~delivered
       THEN /\ response' = [RespondIssue(opName, phone, method, "Internal") EXCEPT
                               !.id = IF SaveOk(doc) THEN doc.id ELSE 0,
                               !.sent = IF SaveOk(doc)
                                        THEN sendOTP(phone, code, method, delivered)
                                        ELSE NoSend]
            /\ UNCHANGED <<users, hist>>
       ELSE /\ users' = Saved(doc)
            /\ hist' = [hist EXCEPT ![doc.id] = HistIssued(@, code)]
            /\ response' = [RespondIssue(opName, phone, method, "ok") EXCEPT
                               !.id = doc.id,
                               !.sent = sendOTP(phone, code, method, delivered),
                               !.otp = DevModeOtp(code, delivered)]

\* a mutant: the dispatch made before the save
IssueAndDispatchSendFirst(opName, user, phone, method, code, delivered) ==
    LET doc == generateOTP(user, code, now)
    IN IF ~SaveOk(doc)
       THEN /\ response' = [RespondIssue(opName, phone, method, "Internal") EXCEPT
                               !.sent = sendOTP(phone, code, method, delivered)]
            /\ UNCHANGED <<users, hist>>
       ELSE /\ users' = Saved(doc)
            /\ hist' = [hist EXCEPT ![doc.id] = HistIssued(@, code)]
            /\ response' = [RespondIssue(opName, phone, method, "ok") EXCEPT
                               !.id = doc.id,
                               !.sent = sendOTP(phone, code, method, delivered),
                               !.otp = DevModeOtp(code, delivered)]

\* the tail shared by send-otp and resend-otp: generateOTP, save, sendOTP
IssueAndDispatch(opName, user, phone, method, code, delivered) ==
    LET doc == generateOTP(user, code, now)
    IN IF ~SaveOk(doc)
       THEN /\ response' = RespondIssue(opName, phone, method, "Internal")
            /\ UNCHANGED <<users, hist>>
       ELSE /\ users' = Saved(doc)
            /\ hist' = [hist EXCEPT ![doc.id] = HistIssued(@, code)]
            /\ response' = [RespondIssue(opName, phone, method, "ok") EXCEPT
                               !.id = doc.id,
                               !.sent = sendOTP(phone, code, method, delivered),
                               !.otp = DevModeOtp(code, delivered)]

\* POST /send-otp: new User({ phoneNumber: "", fullName: '', city: '',
\* experienceLevel: 'fresher' })
SendOtpNewUser(i, phone) == NewUser(i, "", "", "", "fresher")

\* POST /send-otp
RequestChallenge(phone, method, code, delivered) ==
    LET found == FindByPhone(phone)
    IN /\ found # NoDoc \/ FreshIds # {}
       /\ LET user == IF found # NoDoc THEN found
                      ELSE SendOtpNewUser(CHOOSE i \in FreshIds : TRUE, phone)
          IN IssueAndDispatch("requestChallenge", user, phone, method, code, delivered)
       /\ UNCHANGED <<now, held, nodeEnv, inflight>>

\* a mutant: resend-otp builds a new document for an unknown number, as
\* send-otp does
ResendChallengeCreating(phone, method, code, delivered) ==
    LET found == FindByPhone(phone)
    IN /\ found # NoDoc \/ FreshIds # {}
       /\ LET user == IF found # NoDoc THEN found
                      ELSE SendOtpNewUser(CHOOSE i \in FreshIds : TRUE, phone)
          IN IssueAndDispatch("resendChallenge", user, phone, method, code, delivered)
       /\ UNCHANGED <<now, held, nodeEnv, inflight>>

\* POST /resend-otp
ResendChallenge(phone, method, code, delivered) ==
    LET found == FindByPhone(phone)
    IN /\ IF found = NoDoc
          THEN /\ response' = RespondIssue("resendChallenge", phone, method,
                                            "NotFound")
               /\ UNCHANGED <<users, hist>>
          ELSE IssueAndDispatch("resendChallenge", found, phone, method, code, delivered)
       /\ UNCHANGED <<now, held, nodeEnv, inflight>>

\* history after a verification of inputOTP against the loaded document
HistVerified(h, doc, inputOTP, success) ==
    [h EXCEPT !.mism = IF doc.otp.code # "" /\ doc.otp.code # inputOTP
                       THEN Min(@ + 1, MaxOtpAttempts) ELSE @,
              !.invalid = IF verifyOTP(doc, inputOTP, now).message = "InvalidCode"
                          THEN Min(@ + 1, MaxOtpAttempts + 1) ELSE @,
              !.usedCode = IF success THEN inputOTP ELSE @]

\* a mutant: the failure path answers without `await user.save()`
VerifyChallengeNoSaveOnFailure(phone, inputOTP) ==
    LET found == FindByPhone(phone)
        otpResult == verifyOTP(found, inputOTP, now)
        loggedIn == [otpResult.doc EXCEPT !.lastLogin = now]
        base == [Respond("verifyChallenge", phone, "ok") EXCEPT !.code = inputOTP]
    IN /\ IF found = NoDoc
          THEN /\ response' = [base EXCEPT !.status = "NotFound"]
               /\ UNCHANGED <<users, hist, held>>
          ELSE IF ~otpResult.success
          THEN /\ users' = users
               /\ response' = [base EXCEPT !.status = otpResult.message,
                                           !.id = found.id]
               /\ hist' = [hist EXCEPT ![found.id] =
                               HistVerified(@, found, inputOTP, FALSE)]
               /\ held' = held
          ELSE /\ hist' = [hist EXCEPT ![found.id] =
                               HistVerified(@, found, inputOTP, TRUE)]
               /\ IF SaveOk(loggedIn)
                  THEN /\ users' = Saved(loggedIn)
                       /\ held' = [held EXCEPT ![found.id] = JwtSign(loggedIn, now)]
                       /\ response' = [base EXCEPT
                               !.id = found.id,
                               !.token = JwtSign(loggedIn, now),
                               !.pct = PreSave(loggedIn).profileCompletionPercentage]
                  ELSE /\ response' = [base EXCEPT !.status = "Internal"]
                       /\ UNCHANGED <<users, held>>
       /\ UNCHANGED <<now, nodeEnv, inflight>>

\* POST /verify-otp
VerifyChallenge(phone, inputOTP) ==
    LET found == FindByPhone(phone)
        otpResult == verifyOTP(found, inputOTP, now)
        loggedIn == [otpResult.doc EXCEPT !.lastLogin = now]
        base == [Respond("verifyChallenge", phone, "ok") EXCEPT !.code = inputOTP]
    IN /\ IF found = NoDoc
          THEN /\ response' = [base EXCEPT !.status = "NotFound"]
               /\ UNCHANGED <<users, hist, held>>
          ELSE IF ~otpResult.success
          THEN /\ IF SaveOk(otpResult.doc)
                  THEN /\ users' = Saved(otpResult.doc)
                       /\ response' = [base EXCEPT !.status = otpResult.message,
                                                   !.id = found.id]
                  ELSE /\ users' = users
                       /\ response' = [base EXCEPT !.status = "Internal"]
               /\ hist' = [hist EXCEPT ![found.id] =
                               HistVerified(@, found, inputOTP, FALSE)]
               /\ held' = held
          ELSE /\ hist' = [hist EXCEPT ![found.id] =
                               HistVerified(@, found, inputOTP, TRUE)]
               /\ IF SaveOk(loggedIn)
                  THEN /\ users' = Saved(loggedIn)
                       /\ held' = [held EXCEPT ![found.id] = JwtSign(loggedIn, now)]
                       /\ response' = [base EXCEPT
                               !.id = found.id,
                               !.token = JwtSign(loggedIn, now),
                               !.pct = PreSave(loggedIn).profileCompletionPercentage]
                  ELSE /\ response' = [base EXCEPT !.status = "Internal"]
                       /\ UNCHANGED <<users, held>>
       /\ UNCHANGED <<now, nodeEnv, inflight>>

\* time passes until the next of the given instants
Elapse(instants) ==
    /\ \E t \in instants :
          /\ t > now
          /\ \A s \in instants : s > now => t <= s
          /\ now' = t
    /\ response' = NoResponse
    /\ UNCHANGED <<users, hist, held, nodeEnv, inflight>>

Tick == Elapse(OtpInstants)

(***************************************************************************)
(* middleware/auth.js                                                      *)
(***************************************************************************)
\* a header that is no JWT
MalformedToken == [id |-> 0, phoneNumber |-> "", exp |-> 0, sig |-> "malformed"]

\* a token with the same claims signed with another key
Forged(tok) == [tok EXCEPT !.sig = "other"]

\* jwt.verify(tokenValue, JWT_SECRET): throws on a malformed token, a wrong
\* signature, and from the second the token expires
JwtVerify(tok, t) == tok.sig = "JWT_SECRET" /\ t < tok.exp

\* User.findById(id)
FindById(i) == IF i \in Ids THEN users[i] ELSE NoDoc

\* .select('-otp')
WithoutOtp(doc) == IF doc = NoDoc THEN NoDoc ELSE [doc EXCEPT !.otp = NoOtp]

\* a mutant: the token's expiry not checked
AuthIgnoringExpiry(cred) ==
    IF cred = NoToken THEN NoDoc
    ELSE IF cred.sig # "JWT_SECRET" THEN NoDoc
    ELSE IF FindById(cred.id) = NoDoc THEN NoDoc
    ELSE IF ~FindById(cred.id).isActive THEN NoDoc
    ELSE WithoutOtp(FindById(cred.id))

\* a mutant: user.isActive not looked at
AuthIgnoringActive(cred) ==
    IF cred = NoToken THEN NoDoc
    ELSE IF ~JwtVerify(cred, now) THEN NoDoc
    ELSE IF FindById(cred.id) = NoDoc THEN NoDoc
    ELSE WithoutOtp(FindById(cred.id))

\* a mutant: a credential presented to logout is refused from then on
AuthRefusingLoggedOut(cred) ==
    IF cred = NoToken THEN NoDoc
    ELSE IF ~JwtVerify(cred, now) THEN NoDoc
    ELSE IF FindById(cred.id) = NoDoc THEN NoDoc
    ELSE IF ~FindById(cred.id).isActive THEN NoDoc
    ELSE IF hist[cred.id].loggedOut THEN NoDoc
    ELSE WithoutOtp(FindById(cred.id))

\* auth: req.user, or NoDoc when the request is answered 401
auth(cred) ==
    IF cred = NoToken THEN NoDoc
    ELSE IF ~JwtVerify(cred, now) THEN NoDoc
    ELSE IF FindById(cred.id) = NoDoc THEN NoDoc
    ELSE IF ~FindById(cred.id).isActive THEN NoDoc
    ELSE WithoutOtp(FindById(cred.id))

Answer(opName, cred, st) ==
    [NoResponse EXCEPT !.op = opName, !.cred = cred, !.status = st]

\* a route behind auth: 401 from the middleware, else 400 from the
\* validators, else the handler
Authenticated(opName, cred, valid, handler) ==
    IF auth(cred) = NoDoc
    THEN /\ response' = Answer(opName, cred, "Unauthorized")
         /\ UNCHANGED <<now, users, hist, held, nodeEnv, inflight>>
    ELSE IF ~valid
    THEN /\ response' = [Answer(opName, cred, "ValidationFailed") EXCEPT
                            !.id = auth(cred).id]
         /\ UNCHANGED <<now, users, hist, held, nodeEnv, inflight>>
    ELSE handler

\* the fields of the saved document that the 200 answer returns in data
Returned(doc, fields) == [f \in fields |-> doc[f]]

\* user.save() and the 200 answer of a section update; fields are the
\* fields of the document the answer returns, and withPct tells whether it
\* carries profileCompletionPercentage
SaveSection(opName, cred, doc, fields, withPct) ==
    /\ IF SaveOk(doc)
       THEN /\ users' = Saved(doc)
            /\ response' = [Answer(opName, cred, "ok") EXCEPT
                    !.id = doc.id,
                    !.data = Returned(PreSave(doc), fields),
                    !.pct = IF withPct
                            THEN PreSave(doc).profileCompletionPercentage
                            ELSE -1]
       ELSE /\ users' = users
            /\ response' = [Answer(opName, cred, "Internal") EXCEPT !.id = doc.id]
    /\ UNCHANGED <<now, hist, held, nodeEnv, inflight>>

\* POST /api/auth/logout: no middleware, no read of the request, no write
Logout(cred) ==
    /\ response' = Answer("logout", cred, "ok")
    /\ hist' = [i \in Ids |->
                  IF cred.id = i THEN [hist[i] EXCEPT !.loggedOut = TRUE]
                  ELSE hist[i]]
    /\ UNCHANGED <<now, users, held, nodeEnv, inflight>>

\* a mutant: the document read without .select('-otp')
GetCurrentProfileWithOtp(cred) ==
    Authenticated("getCurrentProfile", cred, TRUE,
        /\ response' = [Answer("getCurrentProfile", cred, "ok") EXCEPT
                           !.id = auth(cred).id,
                           !.data = FindById(auth(cred).id)]
        /\ UNCHANGED <<now, users, hist, held, nodeEnv, inflight>>)

\* GET /api/auth/me
GetCurrentProfile(cred) ==
    Authenticated("getCurrentProfile", cred, TRUE,
        /\ response' = [Answer("getCurrentProfile", cred, "ok") EXCEPT
                           !.id = auth(cred).id,
                           !.data = WithoutOtp(FindById(auth(cred).id))]
        /\ UNCHANGED <<now, users, hist, held, nodeEnv, inflight>>)

\* GET /api/profile/complete-profile
GetCompleteProfile(cred) ==
    Authenticated("getCompleteProfile", cred, TRUE,
        /\ response' = [Answer("getCompleteProfile", cred, "ok") EXCEPT
                           !.id = auth(cred).id,
                           !.pct = FindById(auth(cred).id).profileCompletionPercentage,
                           !.data = WithoutOtp(FindById(auth(cred).id))]
        /\ UNCHANGED <<now, users, hist, held, nodeEnv, inflight>>)

(***************************************************************************)
(* routes/user.js and routes/profile.js: the section updates               *)
(*                                                                         *)
(* A field the payload does not supply is "" for a string or a date, and   *)
(* a pair with given = FALSE for a number, a boolean or a list.            *)
(***************************************************************************)
\* strings isLength({ min: 2 }) rejects after trim()
ShortStrings == {"", "A"}
Genders == {"male", "female", "other"}
WorkTypes == {"full-time", "part-time", "contract", "freelance", "internship"}
JobCategoryTags == {"security", "housekeeping", "hospitality", "retail",
                    "food-service", "logistics", "construction", "healthcare",
                    "education", "other"}
Given(v) == [given |-> TRUE, value |-> v]
NotGiven(v) == [given |-> FALSE, value |-> v]

\* the schema's lowercase: true on email
ToLowerCase(e) == IF e = "A@X.IO" THEN "a@x.io" ELSE e

\* a mutant: the lookup finds nobody
EmailLookupFindsNobody(e, id) == FALSE

\* User.findOne({ email, _id: { $ne: id } })
EmailTakenByOther(e, id) ==
    \E j \in Ids \ {id} : users[j] # NoDoc /\ users[j].email = ToLowerCase(e)

\* the validators of personal-details
PersonalDetailsValid(p) ==
    /\ p.fullName \notin ShortStrings
    /\ p.city \notin ShortStrings
    /\ p.gender \in Genders \cup {""}

\* if (email && email !== user.email) and the lookup
PersonalDetailsConflict(user, p) ==
    p.email # "" /\ p.email # user.email /\ EmailTakenByOther(p.email, user.id)

\* a mutant: the handler also assigns a phone number taken from the body
PersonalDetailsAssignedWithPhone(user, p) ==
    [user EXCEPT
        !.phoneNumber = "+10000000003",
        !.fullName = p.fullName,
        !.city = p.city,
        !.email = IF p.email # "" THEN ToLowerCase(p.email) ELSE @,
        !.dateOfBirth = IF p.dateOfBirth # "" THEN p.dateOfBirth ELSE @,
        !.gender = IF p.gender # "" THEN p.gender ELSE @]

\* a mutant: email, dateOfBirth and gender assigned whether supplied or not
PersonalDetailsAssignedClearing(user, p) ==
    [user EXCEPT
        !.fullName = p.fullName,
        !.city = p.city,
        !.email = ToLowerCase(p.email),
        !.dateOfBirth = p.dateOfBirth,
        !.gender = p.gender]

\* the assignments of personal-details to the loaded document
PersonalDetailsAssigned(user, p) ==
    [user EXCEPT
        !.fullName = p.fullName,
        !.city = p.city,
        !.email = IF p.email # "" THEN ToLowerCase(p.email) ELSE @,
        !.dateOfBirth = IF p.dateOfBirth # "" THEN p.dateOfBirth ELSE @,
        !.gender = IF p.gender # "" THEN p.gender ELSE @]

\* PUT /api/user/personal-details
UpdatePersonalDetails(cred, p) ==
    Authenticated("updatePersonalDetails", cred, PersonalDetailsValid(p),
        LET user == FindById(auth(cred).id)
        IN IF PersonalDetailsConflict(user, p)
           THEN /\ response' = [Answer("updatePersonalDetails", cred, "Conflict")
                                   EXCEPT !.id = user.id]
                /\ UNCHANGED <<now, users, hist, held, nodeEnv, inflight>>
           ELSE SaveSection("updatePersonalDetails", cred,
                            PersonalDetailsAssigned(user, p),
                            {"id", "fullName", "city", "email", "dateOfBirth",
                             "gender"},
                            TRUE))

\* PUT /api/user/personal-details up to `await user.save()`: the middleware,
\* the validators, findById, the conflict lookup and the assignments; the
\* handler then waits for the store with the document it loaded and the one
\* it is about to save
BeginUpdatePersonalDetails(r, cred, p) ==
    /\ inflight[r] = NoRequest
    /\ Authenticated("updatePersonalDetails", cred, PersonalDetailsValid(p),
          LET user == FindById(auth(cred).id)
          IN IF PersonalDetailsConflict(user, p)
             THEN /\ response' = [Answer("updatePersonalDetails", cred, "Conflict")
                                     EXCEPT !.id = user.id]
                  /\ UNCHANGED <<now, users, hist, held, nodeEnv, inflight>>
             ELSE /\ inflight' = [inflight EXCEPT ![r] =
                         [op |-> "updatePersonalDetails", cred |-> cred,
                          loaded |-> user,
                          doc |-> PersonalDetailsAssigned(user, p)]]
                  /\ response' = NoResponse
                  /\ UNCHANGED <<now, users, hist, held, nodeEnv>>)

\* userSchema.pre('save') on a document loaded earlier
PreSaveLoaded(loaded, doc) ==
    IF doc # loaded THEN calculateProfileCompletion(doc) ELSE doc

\* a mutant: the store adds 1 to the attempt counter it holds ($inc),
\* whatever the handler read
SetModifiedIncrementing(stored, loaded, doc) ==
    [f \in DOMAIN doc |->
        IF doc[f] = loaded[f] THEN stored[f]
        ELSE IF /\ f = "otp"
                /\ doc.otp.code = loaded.otp.code
                /\ doc.otp.expiresAt = loaded.otp.expiresAt
             THEN [stored.otp EXCEPT !.attempts = @ + 1]
        ELSE doc[f]]

\* save() of a loaded document writes the paths that differ from what was
\* loaded ($set of otp.attempts alone when only the counter changed) and
\* leaves the others as they are in the store
SetModified(stored, loaded, doc) ==
    [f \in DOMAIN doc |->
        IF doc[f] = loaded[f] THEN stored[f]
        ELSE IF /\ f = "otp"
                /\ doc.otp.code = loaded.otp.code
                /\ doc.otp.expiresAt = loaded.otp.expiresAt
             THEN [stored.otp EXCEPT !.attempts = doc.otp.attempts]
        ELSE doc[f]]

\* `await user.save()` of a waiting handler and its answer: validation, the
\* pre-save hook, the write with the unique indexes, then 200 or, when
\* save() throws, 500
FinishSave(r) ==
    LET q == inflight[r]
        doc == PreSaveLoaded(q.loaded, q.doc)
        merged == SetModified(users[doc.id], q.loaded, doc)
    IN /\ q # NoRequest
       /\ IF ValidateDoc(doc) /\ IndexOk(merged)
          THEN /\ users' = [users EXCEPT ![doc.id] = merged]
               /\ response' = [Answer(q.op, q.cred, "ok") EXCEPT
                                  !.id = doc.id,
                                  !.pct = doc.profileCompletionPercentage]
          ELSE /\ users' = users
               /\ response' = [Answer(q.op, q.cred, "Internal") EXCEPT
                                  !.id = doc.id]
       /\ inflight' = [inflight EXCEPT ![r] = NoRequest]
       /\ UNCHANGED <<now, hist, held, nodeEnv>>

\* POST /verify-otp up to `await user.save()`: findOne, verifyOTP on the
\* document in memory and, after a match, lastLogin; the handler then
\* waits for the store
BeginVerifyChallenge(r, phone, inputOTP) ==
    LET found == FindByPhone(phone)
        otpResult == verifyOTP(found, inputOTP, now)
    IN /\ inflight[r] = NoRequest
       /\ IF found = NoDoc
          THEN /\ response' = [Respond("verifyChallenge", phone, "NotFound")
                                  EXCEPT !.code = inputOTP]
               /\ inflight' = inflight
          ELSE /\ inflight' = [inflight EXCEPT ![r] =
                      [op |-> "verifyChallenge", phone |-> phone,
                       code |-> inputOTP, loaded |-> found,
                       doc |-> IF otpResult.success
                               THEN [otpResult.doc EXCEPT !.lastLogin = now]
                               ELSE otpResult.doc,
                       result |-> otpResult.message]]
               /\ response' = NoResponse
       /\ UNCHANGED <<now, users, hist, held, nodeEnv>>

\* `await user.save()` of a waiting verify-otp handler and its answer: 400
\* with the message of verifyOTP, or jwt.sign and 200, or 500 when save()
\* throws
FinishVerifyChallenge(r) ==
    LET q == inflight[r]
        doc == PreSaveLoaded(q.loaded, q.doc)
        merged == SetModified(users[doc.id], q.loaded, doc)
        success == q.result = "ok"
        base == [Respond("verifyChallenge", q.phone, q.result) EXCEPT
                    !.code = q.code]
    IN /\ q # NoRequest
       /\ q.op = "verifyChallenge"
       /\ hist' = [hist EXCEPT ![doc.id] =
                      HistVerified(@, q.loaded, q.code, success)]
       /\ IF ValidateDoc(doc) /\ IndexOk(merged)
          THEN /\ users' = [users EXCEPT ![doc.id] = merged]
               /\ held' = IF success
                          THEN [held EXCEPT ![doc.id] = JwtSign(doc, now)]
                          ELSE held
               /\ response' = IF success
                              THEN [base EXCEPT
                                      !.id = doc.id,
                                      !.token = JwtSign(doc, now),
                                      !.pct = doc.profileCompletionPercentage]
                              ELSE [base EXCEPT !.id = doc.id]
          ELSE /\ response' = [base EXCEPT !.status = "Internal"]
               /\ UNCHANGED <<users, held>>
       /\ inflight' = [inflight EXCEPT ![r] = NoRequest]
       /\ UNCHANGED <<now, nodeEnv>>

\* PUT /api/user/language-preference
UpdateLanguage(cred, selectedLanguage) ==
    Authenticated("updateLanguage", cred,
        selectedLanguage \notin ShortStrings,
        SaveSection("updateLanguage", cred,
            [FindById(auth(cred).id) EXCEPT !.selectedLanguage = selectedLanguage],
            {"selectedLanguage"}, FALSE))

\* the values of loc.priority as the Set of the handler tells them apart: a
\* JSON number and a JSON string of the same digit are different members
PriorityKey(loc) == <<loc.priority, loc.quoted>>

\* the schema's cast of a location to { city: String, priority: Number }
CastLocation(loc) == [city |-> loc.city, priority |-> loc.priority]
CastLocations(locs) == [k \in 1..Len(locs) |-> CastLocation(locs[k])]

\* PUT /api/user/location-preferences
UpdateLocationPreferences(cred, preferredLocations, willingToRelocate) ==
    Authenticated("updateLocationPreferences", cred,
        /\ Len(preferredLocations) >= 1
        /\ Len(preferredLocations) <= 3
        /\ \A k \in 1..Len(preferredLocations) :
              /\ preferredLocations[k].city \notin ShortStrings
              /\ preferredLocations[k].priority \in 1..3,
        IF Cardinality({PriorityKey(preferredLocations[k]) :
                            k \in 1..Len(preferredLocations)})
              # Len(preferredLocations)
        THEN /\ response' = [Answer("updateLocationPreferences", cred,
                                    "ValidationFailed")
                                EXCEPT !.id = auth(cred).id]
             /\ UNCHANGED <<now, users, hist, held, nodeEnv, inflight>>
        ELSE SaveSection("updateLocationPreferences", cred,
                [FindById(auth(cred).id) EXCEPT
                    !.preferredLocations = CastLocations(preferredLocations),
                    !.willingToRelocate = willingToRelocate],
                {"preferredLocations", "willingToRelocate"}, TRUE))

\* PUT /api/user/work-availability
UpdateWorkAvailability(cred, workAvailability) ==
    Authenticated("updateWorkAvailability", cred,
        /\ Cardinality(workAvailability) >= 1
        /\ workAvailability \subseteq WorkTypes,
        SaveSection("updateWorkAvailability", cred,
            [FindById(auth(cred).id) EXCEPT !.workAvailability = workAvailability],
            {"workAvailability"}, TRUE))

\* PUT /api/user/notification-settings
UpdateNotificationSettings(cred, allowNotifications, marketingNotifications) ==
    Authenticated("updateNotificationSettings", cred, TRUE,
        SaveSection("updateNotificationSettings", cred,
            [FindById(auth(cred).id) EXCEPT
                !.notificationSettings.allowNotifications =
                    IF allowNotifications.given THEN allowNotifications.value ELSE @,
                !.notificationSettings.marketingNotifications =
                    IF marketingNotifications.given
                    THEN marketingNotifications.value ELSE @],
            {"notificationSettings"}, FALSE))

\* a mutant: totalExperienceYears || 0 assigned whether supplied or not
UpdateExperienceResettingYears(cred, experienceLevel, totalExperienceYears) ==
    Authenticated("updateExperience", cred,
        /\ experienceLevel \in {"fresher", "experienced"}
        /\ totalExperienceYears.given => totalExperienceYears.value \in 0..50,
        SaveSection("updateExperience", cred,
            [FindById(auth(cred).id) EXCEPT
                !.experienceLevel = experienceLevel,
                !.totalExperienceYears =
                    IF totalExperienceYears.given
                    THEN totalExperienceYears.value ELSE 0],
            {"experienceLevel", "totalExperienceYears"}, TRUE))

\* PUT /api/profile/experience
UpdateExperience(cred, experienceLevel, totalExperienceYears) ==
    Authenticated("updateExperience", cred,
        /\ experienceLevel \in {"fresher", "experienced"}
        /\ totalExperienceYears.given => totalExperienceYears.value \in 0..50,
        SaveSection("updateExperience", cred,
            [FindById(auth(cred).id) EXCEPT
                !.experienceLevel = experienceLevel,
                !.totalExperienceYears =
                    IF totalExperienceYears.given
                    THEN totalExperienceYears.value ELSE @],
            {"experienceLevel", "totalExperienceYears"}, TRUE))

\* PUT /api/profile/skills
UpdateSkills(cred, skills) ==
    Authenticated("updateSkills", cred,
        skills.given =>
            \A k \in 1..Len(skills.value) : skills.value[k].name # "",
        SaveSection("updateSkills", cred,
            [FindById(auth(cred).id) EXCEPT
                !.skills = IF skills.given THEN skills.value ELSE @],
            {"skills"}, TRUE))

\* PUT /api/profile/job-preferences
UpdateJobPreferences(cred, jobCategories, accommodationRequired) ==
    Authenticated("updateJobPreferences", cred,
        jobCategories.given => jobCategories.value \subseteq JobCategoryTags,
        SaveSection("updateJobPreferences", cred,
            [FindById(auth(cred).id) EXCEPT
                !.jobCategories =
                    IF jobCategories.given THEN jobCategories.value ELSE @,
                !.accommodationRequired =
                    IF accommodationRequired.given
                    THEN accommodationRequired.value ELSE @],
            {"jobCategories", "accommodationRequired"}, TRUE))

(***************************************************************************)
(* The OTP state machine                                                   *)
(***************************************************************************)
\* a profile as an earlier registration left it
SeedUser(i, active) ==
    [calculateProfileCompletion(NewUser(i, PhoneOf[i], "Asha", "Pune", "fresher"))
        EXCEPT !.isActive = active]

Init ==
    /\ now = 0
    /\ \E a \in BOOLEAN : users = [i \in Ids |-> IF i = 1 THEN SeedUser(1, a) ELSE NoDoc]
    /\ hist = [i \in Ids |-> NoHist]
    /\ held = [i \in Ids |-> NoToken]
    /\ response = NoResponse
    /\ nodeEnv = "production"
    /\ inflight = [r \in Reqs |-> NoRequest]

Next ==
    \/ \E p \in Phones, m \in Channels, c \in Codes, d \in BOOLEAN :
          RequestChallenge(p, m, c, d)
    \/ \E p \in Phones, m \in Channels, c \in Codes, d \in BOOLEAN :
          ResendChallenge(p, m, c, d)
    \/ \E p \in Phones, c \in Codes : VerifyChallenge(p, c)
    \/ Tick

Spec == Init /\ [][Next]_vars

(***************************************************************************)
(* The OTP state machine of a server started in either mode                *)
(***************************************************************************)
InitDev ==
    /\ now = 0
    /\ users = [i \in Ids |-> IF i = 1 THEN SeedUser(1, TRUE) ELSE NoDoc]
    /\ hist = [i \in Ids |-> NoHist]
    /\ held = [i \in Ids |-> NoToken]
    /\ response = NoResponse
    /\ nodeEnv \in NodeEnvs
    /\ inflight = [r \in Reqs |-> NoRequest]

SpecDev == InitDev /\ [][Next]_vars

(***************************************************************************)
(* Sessions: the routes behind auth, called with every kind of credential  *)
(***************************************************************************)
\* the minutes at which requests arrive in the life of a credential minted
\* at minute 0: at its start, in its last minute, and when it has expired
SessionInstants == {0, JwtExpireMinutes - 1, JwtExpireMinutes}

\* a profile as a successful verify-otp at time t left it
LoggedIn(doc, t) == [doc EXCEPT !.isPhoneVerified = TRUE, !.lastLogin = t]

\* the credentials a caller can present: none, garbage, the ones minted, and
\* those with another signature
PresentedCredentials ==
    {NoToken, MalformedToken}
        \cup {held[i] : i \in Ids} \cup {Forged(held[i]) : i \in Ids}

\* one payload for each section
SamplePersonal ==
    [fullName |-> "Asha Rao", city |-> "Pune", email |-> "a@x.io",
     dateOfBirth |-> "1990-01-01", gender |-> "female"]
SampleLocations == <<[city |-> "Pune", priority |-> 1, quoted |-> FALSE]>>
SampleSkills == <<[name |-> "driving", level |-> "beginner"]>>

\* profile 1 is logged in; profile 2 is logged in and then deactivated, or
\* was removed from the store after it logged in
InitAuth ==
    /\ now = 0
    /\ \E gone \in BOOLEAN :
          users = [i \in Ids |->
                      IF i = 1 THEN LoggedIn(SeedUser(1, TRUE), 0)
                      ELSE IF gone THEN NoDoc
                      ELSE LoggedIn(SeedUser(i, FALSE), 0)]
    /\ hist = [i \in Ids |-> NoHist]
    /\ held = [i \in Ids |-> JwtSign(SeedUser(i, TRUE), 0)]
    /\ response = NoResponse
    /\ nodeEnv = "production"
    /\ inflight = [r \in Reqs |-> NoRequest]

NextAuth ==
    \/ \E cred \in PresentedCredentials : GetCurrentProfile(cred)
    \/ \E cred \in PresentedCredentials : GetCompleteProfile(cred)
    \/ \E cred \in PresentedCredentials : UpdatePersonalDetails(cred, SamplePersonal)
    \/ \E cred \in PresentedCredentials : UpdateLanguage(cred, "hindi")
    \/ \E cred \in PresentedCredentials :
          UpdateLocationPreferences(cred, SampleLocations, TRUE)
    \/ \E cred \in PresentedCredentials : UpdateWorkAvailability(cred, {"full-time"})
    \/ \E cred \in PresentedCredentials :
          UpdateNotificationSettings(cred, Given(FALSE), NotGiven(FALSE))
    \/ \E cred \in PresentedCredentials :
          UpdateExperience(cred, "experienced", Given(4))
    \/ \E cred \in PresentedCredentials : UpdateSkills(cred, Given(SampleSkills))
    \/ \E cred \in PresentedCredentials :
          UpdateJobPreferences(cred, Given({"retail"}), NotGiven(FALSE))
    \/ Elapse(SessionInstants)

SpecAuth == InitAuth /\ [][NextAuth]_vars

(***************************************************************************)
(* Profile building: the section updates of a logged-in profile, with OTP  *)
(* requests for it in between                                              *)
(***************************************************************************)
PersonalPayloads ==
    { [fullName |-> "Asha", city |-> "Pune", email |-> "",
       dateOfBirth |-> "", gender |-> ""],
      SamplePersonal,
      [fullName |-> "Asha", city |-> "Pune", email |-> "b@x.io",
       dateOfBirth |-> "", gender |-> ""],
      [fullName |-> "A", city |-> "Pune", email |-> "",
       dateOfBirth |-> "", gender |-> ""] }

\* req.body.preferredLocations: one entry; two entries with priorities 1 and
\* 2; two with priority 1 and 1; two with priority 1 and "1"; four entries;
\* none
LocationPayloads ==
    { SampleLocations,
      <<[city |-> "Pune", priority |-> 1, quoted |-> FALSE],
        [city |-> "Mumbai", priority |-> 2, quoted |-> FALSE]>>,
      <<[city |-> "Pune", priority |-> 1, quoted |-> FALSE],
        [city |-> "Mumbai", priority |-> 1, quoted |-> FALSE]>>,
      <<[city |-> "Pune", priority |-> 1, quoted |-> FALSE],
        [city |-> "Mumbai", priority |-> 1, quoted |-> TRUE]>>,
      <<[city |-> "Pune", priority |-> 1, quoted |-> FALSE],
        [city |-> "Mumbai", priority |-> 2, quoted |-> FALSE],
        [city |-> "Delhi", priority |-> 3, quoted |-> FALSE],
        [city |-> "Chennai", priority |-> 1, quoted |-> FALSE]>>,
      <<>> }

SkillPayloads == {NotGiven(<<>>), Given(<<>>), Given(SampleSkills)}
JobCategoryPayloads == {NotGiven({}), Given({}), Given({"retail"})}

\* profile 1 is logged in; profile 2 owns the email b@x.io and never logged in
InitProfile ==
    /\ now = 0
    /\ users = [i \in Ids |->
                  IF i = 1 THEN LoggedIn(SeedUser(1, TRUE), 0)
                  ELSE calculateProfileCompletion(
                          [SeedUser(i, TRUE) EXCEPT !.email = "b@x.io"])]
    /\ hist = [i \in Ids |-> NoHist]
    /\ held = [i \in Ids |-> IF i = 1 THEN JwtSign(SeedUser(1, TRUE), 0) ELSE NoToken]
    /\ response = NoResponse
    /\ nodeEnv = "production"
    /\ inflight = [r \in Reqs |-> NoRequest]

NextProfile ==
    \/ \E p \in PersonalPayloads : UpdatePersonalDetails(held[1], p)
    \/ \E l \in {"hindi", "A"} : UpdateLanguage(held[1], l)
    \/ \E locs \in LocationPayloads :
          UpdateLocationPreferences(held[1], locs, TRUE)
    \/ \E w \in {{}, {"full-time"}} : UpdateWorkAvailability(held[1], w)
    \/ \E a \in {NotGiven(FALSE), Given(FALSE)} :
          UpdateNotificationSettings(held[1], a, NotGiven(FALSE))
    \/ UpdateExperience(held[1], "experienced", Given(4))
    \/ \E sk \in SkillPayloads : UpdateSkills(held[1], sk)
    \/ \E jc \in JobCategoryPayloads : UpdateJobPreferences(held[1], jc, NotGiven(FALSE))
    \/ GetCompleteProfile(held[1])
    \/ RequestChallenge(PhoneOf[1], "sms", "100000", TRUE)
    \/ ResendChallenge(PhoneOf[1], "whatsapp", "100000", FALSE)
    \/ \E c \in Codes : VerifyChallenge(PhoneOf[1], c)

SpecProfile == InitProfile /\ [][NextProfile]_vars

(***************************************************************************)
(* The section updates of a logged-in profile that has a challenge         *)
(* pending, with payloads that supply and leave out each optional field    *)
(***************************************************************************)
\* req.body of the section updates: personal details without and with the
\* optional fields; a list of one and of two locations; two work types
PersonalSectionPayloads ==
    { [fullName |-> "Asha", city |-> "Pune", email |-> "",
       dateOfBirth |-> "", gender |-> ""],
      SamplePersonal }
LocationSectionPayloads ==
    { SampleLocations,
      <<[city |-> "Mumbai", priority |-> 2, quoted |-> FALSE],
        [city |-> "Pune", priority |-> 1, quoted |-> TRUE]>> }
WorkPayloads == {{"part-time", "contract"}}
AllowPayloads == {NotGiven(FALSE), Given(FALSE)}
MarketingPayloads == {NotGiven(FALSE), Given(TRUE)}
YearsPayloads == {NotGiven(0), Given(4)}
AccommodationPayloads == {NotGiven(FALSE), Given(TRUE)}

\* profile 1 logged in, asked for a new code and mistyped it once; profile 2
\* owns the email b@x.io
InitSections ==
    /\ now = 0
    /\ users = [i \in Ids |->
                  IF i = 1
                  THEN [LoggedIn(SeedUser(1, TRUE), 0) EXCEPT
                           !.otp = [code |-> "100000",
                                    expiresAt |-> OtpTtlMinutes,
                                    attempts |-> 1]]
                  ELSE calculateProfileCompletion(
                          [SeedUser(i, TRUE) EXCEPT !.email = "b@x.io"])]
    /\ hist = [i \in Ids |-> NoHist]
    /\ held = [i \in Ids |-> IF i = 1 THEN JwtSign(SeedUser(1, TRUE), 0) ELSE NoToken]
    /\ response = NoResponse
    /\ nodeEnv = "production"
    /\ inflight = [r \in Reqs |-> NoRequest]

NextSections ==
    \/ \E p \in PersonalSectionPayloads : UpdatePersonalDetails(held[1], p)
    \/ UpdateLanguage(held[1], "hindi")
    \/ \E locs \in LocationSectionPayloads :
          UpdateLocationPreferences(held[1], locs, TRUE)
    \/ \E w \in WorkPayloads : UpdateWorkAvailability(held[1], w)
    \/ \E a \in AllowPayloads, m \in MarketingPayloads :
          UpdateNotificationSettings(held[1], a, m)
    \/ \E y \in YearsPayloads : UpdateExperience(held[1], "experienced", y)
    \/ \E sk \in SkillPayloads : UpdateSkills(held[1], sk)
    \/ \E jc \in JobCategoryPayloads, acc \in AccommodationPayloads :
          UpdateJobPreferences(held[1], jc, acc)

SpecSections == InitSections /\ [][NextSections]_vars

(***************************************************************************)
(* Interleaved requests: personal-details updates of two logged-in         *)
(* profiles, each waiting at `await user.save()` while others run          *)
(***************************************************************************)
\* req.body of the racing requests: the same address, the same address in
\* capitals, another address, no address
RacePayloads ==
    { [fullName |-> "Asha Rao", city |-> "Pune", email |-> e,
       dateOfBirth |-> "", gender |-> ""] : e \in {"a@x.io", "A@X.IO", "b@x.io", ""} }

InitRace ==
    /\ now = 0
    /\ users = [i \in Ids |-> LoggedIn(SeedUser(i, TRUE), 0)]
    /\ hist = [i \in Ids |-> NoHist]
    /\ held = [i \in Ids |-> JwtSign(SeedUser(i, TRUE), 0)]
    /\ response = NoResponse
    /\ nodeEnv = "production"
    /\ inflight = [r \in Reqs |-> NoRequest]

NextRace ==
    \/ \E r \in Reqs, i \in Ids, p \in RacePayloads :
          BeginUpdatePersonalDetails(r, held[i], p)
    \/ \E r \in Reqs : FinishSave(r)

SpecRace == InitRace /\ [][NextRace]_vars

(***************************************************************************)
(* Interleaved requests: verify-otp requests for one pending challenge,    *)
(* each waiting at `await user.save()` while others run                    *)
(***************************************************************************)
\* profile 1 as a send-otp at minute 0 left it
InitVerifyRace ==
    /\ now = 0
    /\ \E c \in Codes :
          /\ users = [i \in Ids |->
                        IF i = 1 THEN generateOTP(SeedUser(1, TRUE), c, 0)
                        ELSE NoDoc]
          /\ hist = [i \in Ids |-> IF i = 1 THEN HistIssued(NoHist, c) ELSE NoHist]
    /\ held = [i \in Ids |-> NoToken]
    /\ response = NoResponse
    /\ nodeEnv = "production"
    /\ inflight = [r \in Reqs |-> NoRequest]

NextVerifyRace ==
    \/ \E r \in Reqs, p \in Phones, c \in Codes : BeginVerifyChallenge(r, p, c)
    \/ \E r \in Reqs : FinishVerifyChallenge(r)

SpecVerifyRace == InitVerifyRace /\ [][NextVerifyRace]_vars

(***************************************************************************)
(* The life of one profile: a challenge pending, verification, and then    *)
(* every operation, while the clock runs past the expiry of the challenge  *)
(***************************************************************************)
\* the minutes at which requests arrive: before, at and after the expiry of
\* a challenge issued at minute 0
LifecycleInstants == {0, OtpTtlMinutes, OtpTtlMinutes + 1}

\* a registered profile that has chosen its locations and work types, in
\* use or deactivated
LifecycleSeed(active) ==
    calculateProfileCompletion(
        [SeedUser(1, active) EXCEPT
            !.preferredLocations = CastLocations(SampleLocations),
            !.workAvailability = {"full-time"}])

\* the profile has asked for a code at minute 0 and has never logged in
InitLifecycle ==
    /\ now = 0
    /\ \E c \in Codes, a \in BOOLEAN :
          /\ users = [i \in Ids |->
                        IF i = 1 THEN generateOTP(LifecycleSeed(a), c, 0)
                        ELSE NoDoc]
          /\ hist = [i \in Ids |-> IF i = 1 THEN HistIssued(NoHist, c) ELSE NoHist]
    /\ held = [i \in Ids |-> NoToken]
    /\ response = NoResponse
    /\ nodeEnv = "production"
    /\ inflight = [r \in Reqs |-> NoRequest]

NextLifecycle ==
    \/ \E c \in Codes : RequestChallenge(PhoneOf[1], "whatsapp", c, TRUE)
    \/ \E c \in Codes, d \in BOOLEAN : ResendChallenge(PhoneOf[1], "sms", c, d)
    \/ \E c \in Codes : VerifyChallenge(PhoneOf[1], c)
    \/ GetCurrentProfile(held[1])
    \/ GetCompleteProfile(held[1])
    \/ UpdatePersonalDetails(held[1], SamplePersonal)
    \/ UpdateLanguage(held[1], "english")
    \/ UpdateLocationPreferences(held[1], SampleLocations, FALSE)
    \/ UpdateWorkAvailability(held[1], {"full-time"})
    \/ UpdateNotificationSettings(held[1], Given(TRUE), NotGiven(FALSE))
    \/ UpdateExperience(held[1], "fresher", NotGiven(0))
    \/ UpdateSkills(held[1], NotGiven(<<>>))
    \/ UpdateJobPreferences(held[1], NotGiven({}), Given(FALSE))
    \/ Elapse(LifecycleInstants)

SpecLifecycle == InitLifecycle /\ [][NextLifecycle]_vars

(***************************************************************************)
(* Logout: a logged-in profile that calls logout and the routes behind     *)
(* auth in any order, through the life of its credential                   *)
(***************************************************************************)
InitLogout ==
    /\ now = 0
    /\ users = [i \in Ids |->
                  IF i = 1 THEN LoggedIn(LifecycleSeed(TRUE), 0) ELSE NoDoc]
    /\ hist = [i \in Ids |-> NoHist]
    /\ held = [i \in Ids |-> IF i = 1 THEN JwtSign(SeedUser(1, TRUE), 0) ELSE NoToken]
    /\ response = NoResponse
    /\ nodeEnv = "production"
    /\ inflight = [r \in Reqs |-> NoRequest]

NextLogout ==
    \/ \E cred \in PresentedCredentials : Logout(cred)
    \/ \E cred \in PresentedCredentials : GetCurrentProfile(cred)
    \/ \E cred \in PresentedCredentials : GetCompleteProfile(cred)
    \/ \E cred \in PresentedCredentials : UpdatePersonalDetails(cred, SamplePersonal)
    \/ \E cred \in PresentedCredentials : UpdateLanguage(cred, "english")
    \/ \E cred \in PresentedCredentials :
          UpdateLocationPreferences(cred, SampleLocations, FALSE)
    \/ \E cred \in PresentedCredentials : UpdateWorkAvailability(cred, {"full-time"})
    \/ \E cred \in PresentedCredentials :
          UpdateNotificationSettings(cred, Given(TRUE), NotGiven(FALSE))
    \/ \E cred \in PresentedCredentials :
          UpdateExperience(cred, "fresher", NotGiven(0))
    \/ \E cred \in PresentedCredentials : UpdateSkills(cred, NotGiven(<<>>))
    \/ \E cred \in PresentedCredentials :
          UpdateJobPreferences(cred, NotGiven({}), Given(FALSE))
    \/ Elapse(SessionInstants)

SpecLogout == InitLogout /\ [][NextLogout]_vars

(***************************************************************************)
(* The completion scorer on every kind of snapshot                         *)
(***************************************************************************)
\* the documents in memory, one for each choice of the scored fields being
\* set or not
Snapshots ==
    { [NewUser(1, PhoneOf[1], name, cityName, level) EXCEPT
          !.email = mail, !.dateOfBirth = born, !.gender = g,
          !.preferredLocations = locs, !.workAvailability = work,
          !.skills = sk, !.jobCategories = jobs] :
        name \in {"", "Asha"}, cityName \in {"", "Pune"},
        level \in {"", "fresher"}, mail \in {"", "a@x.io"},
        born \in {"", "1990-01-01"}, g \in {"", "female"},
        locs \in {<<>>, CastLocations(SampleLocations)},
        work \in {{}, {"full-time"}},
        sk \in {<<>>, SampleSkills}, jobs \in {{}, {"retail"}} }

InitScore ==
    /\ now = 0
    /\ \E snap \in Snapshots : users = [i \in Ids |-> IF i = 1 THEN snap ELSE NoDoc]
    /\ hist = [i \in Ids |-> NoHist]
    /\ held = [i \in Ids |-> NoToken]
    /\ response = NoResponse
    /\ nodeEnv = "production"
    /\ inflight = [r \in Reqs |-> NoRequest]

\* user.calculateProfileCompletion() on the document in memory
Score ==
    /\ response.op = "none"
    /\ users' = [users EXCEPT ![1] = calculateProfileCompletion(@)]
    /\ response' = [NoResponse EXCEPT
                       !.op = "score", !.id = 1,
                       !.pct = Percentage(users[1])]
    /\ UNCHANGED <<now, hist, held, nodeEnv, inflight>>

NextScore == Score

SpecScore == InitScore /\ [][NextScore]_vars

(***************************************************************************)
(* Properties of the OTP state machine                                     *)
(***************************************************************************)
\* the step is a verify-otp request that found profile i
VerifyStepOn(i) ==
    /\ response'.op = "verifyChallenge"
    /\ users[i] # NoDoc
    /\ response'.phone = users[i].phoneNumber

NoCredential(i) ==
    /\ response'.token = NoToken
    /\ held' = held

\* C1 as stated: after 3 verifications with a mismatching code on one
\* challenge, every later verification of it answers AttemptsExhausted,
\* mints no credential and leaves the phone-verified flag as it was.
C1_AsStated ==
    [][\A i \in Ids :
          VerifyStepOn(i) /\ hist[i].mism >= MaxOtpAttempts =>
              /\ response'.status = "AttemptsExhausted"
              /\ NoCredential(i)
              /\ users'[i].isPhoneVerified = users[i].isPhoneVerified]_vars

\* C1 amended: after 3 verifications with a mismatching code on one
\* challenge, every later verification of it fails, whatever code it
\* presents: with AttemptsExhausted while the expiry has not passed and with
\* Expired once it has; no credential is minted and the phone-verified flag
\* stays as it was.
C1_ExhaustedStaysRejected ==
    [][\A i \in Ids :
          VerifyStepOn(i) /\ hist[i].mism >= MaxOtpAttempts =>
              /\ response'.status =
                    (IF users[i].otp.expiresAt < now THEN "Expired"
                     ELSE "AttemptsExhausted")
              /\ NoCredential(i)
              /\ users'[i].isPhoneVerified = users[i].isPhoneVerified]_vars

\* the correct code was presented after 3 mismatches and was refused
C1_Witness ==
    /\ response.op = "verifyChallenge"
    /\ response.status = "AttemptsExhausted"
    /\ hist[1].mism >= MaxOtpAttempts
    /\ response.code = users[1].otp.code
    /\ ~users[1].isPhoneVerified

\* C2: a code is accepted at most once: after a successful verification, a
\* verification with the same code and no issue in between answers
\* NoChallenge and mints no credential.
C2_CodeAcceptedOnce ==
    [][\A i \in Ids :
          (/\ VerifyStepOn(i)
           /\ hist[i].usedCode # ""
           /\ response'.code = hist[i].usedCode) =>
              /\ response'.status = "NoChallenge"
              /\ NoCredential(i)]_vars

\* the accepted code was presented a second time
C2_Witness ==
    /\ response.op = "verifyChallenge"
    /\ response.status = "NoChallenge"
    /\ hist[1].usedCode # ""
    /\ response.code = hist[1].usedCode
    /\ held[1] # NoToken

\* C3 as stated: for every pair of codes two successive issues generate, a
\* verification presenting the earlier code after the later issue answers
\* InvalidCode or NoChallenge.
C3_AsStated ==
    [][\A i \in Ids :
          (/\ VerifyStepOn(i)
           /\ hist[i].prevCode # ""
           /\ response'.code = hist[i].prevCode) =>
              response'.status \in {"InvalidCode", "NoChallenge"}]_vars

\* C3 amended: when two successive issues generate different codes, a
\* verification presenting the earlier code after the later issue never
\* succeeds and mints nothing: it answers InvalidCode, NoChallenge, Expired
\* or AttemptsExhausted.
C3_OldCodeInvalidated ==
    [][\A i \in Ids :
          (/\ VerifyStepOn(i)
           /\ hist[i].prevCode # ""
           /\ hist[i].prevCode # hist[i].lastCode
           /\ response'.code = hist[i].prevCode) =>
              /\ response'.status \in
                    {"InvalidCode", "NoChallenge", "Expired", "AttemptsExhausted"}
              /\ NoCredential(i)
              /\ users'[i].isPhoneVerified = users[i].isPhoneVerified]_vars

\* the earlier of two different codes was presented while the later
\* challenge was live, and was refused
C3_Witness ==
    /\ response.op = "verifyChallenge"
    /\ response.status = "InvalidCode"
    /\ hist[1].prevCode # ""
    /\ hist[1].prevCode # hist[1].lastCode
    /\ response.code = hist[1].prevCode
    /\ users[1].otp.code = hist[1].lastCode

\* C4: a stored challenge expires 10 minutes after the time it was issued
\* at, and every verification at or after the expiry answers Expired,
\* whatever code it presents, and leaves the challenge in place.
C4_ExpiredAtOrAfterExpiry ==
    [][\A i \in Ids :
          (/\ VerifyStepOn(i)
           /\ users[i].otp.code # ""
           /\ now >= users[i].otp.expiresAt) =>
              /\ response'.status = "Expired"
              /\ users'[i].otp = users[i].otp]_vars

\* C5: a send-otp request for a phone number leaves a stored profile keyed
\* by that number, with experience level fresher and a pending challenge.
C5_RequestCreatesProfile ==
    response.op = "requestChallenge" =>
        \E i \in Ids :
            /\ users[i] # NoDoc
            /\ users[i].phoneNumber = response.phone
            /\ users[i].experienceLevel \in {"fresher", "experienced"}
            /\ users[i].otp.code # ""

\* the challenge of profile i is present, not expired, and not exhausted
Live(i) ==
    /\ users[i].otp.code # ""
    /\ now < users[i].otp.expiresAt
    /\ users[i].otp.attempts < MaxOtpAttempts

\* C6: a verification presenting the code of a live challenge succeeds;
\* afterwards the stored profile is phone-verified, has no challenge, has
\* the verification time as last login, and the credential returned binds
\* the id and phone number of that profile.
C6_VerifySuccessEffects ==
    [][\A i \in Ids :
          (/\ VerifyStepOn(i)
           /\ Live(i)
           /\ response'.code = users[i].otp.code) =>
              /\ response'.status = "ok"
              /\ users'[i].isPhoneVerified
              /\ users'[i].otp = NoOtp
              /\ users'[i].lastLogin = now
              /\ response'.token.sig = "JWT_SECRET"
              /\ response'.token.id = i
              /\ response'.token.phoneNumber = users[i].phoneNumber
              /\ \A j \in Ids \ {i} : users'[j] = users[j]]_vars

\* a verification has just succeeded
C6_Witness ==
    /\ response.op = "verifyChallenge"
    /\ response.status = "ok"
    /\ response.token.id = 1
    /\ users[1].isPhoneVerified
    /\ users[1].otp = NoOtp
    /\ users[1].lastLogin = now

\* C10: when the dispatch fails in send-otp or resend-otp the request is
\* still answered with success, the stored challenge is pending with the
\* generated code, no attempts and its expiry, and a verification with that
\* code would succeed.
C10_DispatchFailureKeepsChallenge ==
    (response.op \in {"requestChallenge", "resendChallenge"}
        /\ response.sent.outcome = "failed") =>
        /\ response.status = "ok"
        /\ response.id \in Ids
        /\ users[response.id].phoneNumber = response.phone
        /\ users[response.id].otp =
              [code |-> response.sent.code,
               expiresAt |-> now + OtpTtlMinutes, attempts |-> 0]
        /\ verifyOTP(users[response.id], response.sent.code, now).success

\* the dispatch of a resend has failed and the new challenge is stored
C10_Witness ==
    /\ response.op = "resendChallenge"
    /\ response.sent.outcome = "failed"
    /\ response.status = "ok"
    /\ users[1].otp.code = response.sent.code

C12_UnknownPhoneNotFound ==
    [][(/\ response'.op \in {"resendChallenge", "verifyChallenge"}
        /\ FindByPhone(response'.phone) = NoDoc) =>
            /\ response'.status = "NotFound"
            /\ users' = users
            /\ response'.sent = NoSend
            /\ response'.otp = ""
            /\ response'.token = NoToken
            /\ held' = held]_vars

\* a resend for the number without a profile was refused while the other
\* profile has a challenge pending
C12_Witness ==
    /\ response.op = "resendChallenge"
    /\ response.status = "NotFound"
    /\ response.phone = PhoneOf[2]
    /\ FindByPhone(response.phone) = NoDoc
    /\ users[1].otp.code # ""

\* C11: on a server in development mode, the answer of every send-otp and
\* resend-otp that issued a challenge carries the generated code (the code
\* now stored and handed to the dispatcher), whether the dispatch succeeded
\* or failed.
C11_DevModeEchoesCode ==
    (/\ nodeEnv = "development"
     /\ response.op \in {"requestChallenge", "resendChallenge"}
     /\ response.status = "ok") =>
        /\ response.otp = response.sent.code
        /\ response.otp = users[response.id].otp.code

(***************************************************************************)
(* Properties of the routes behind auth                                    *)
(***************************************************************************)
AuthenticatedOps ==
    {"getCurrentProfile", "getCompleteProfile", "updatePersonalDetails",
     "updateLanguage", "updateLocationPreferences", "updateWorkAvailability",
     "updateNotificationSettings", "updateExperience", "updateSkills",
     "updateJobPreferences"}

\* no credential, a malformed or wrongly signed one, one past its validity,
\* or one naming a profile that is not stored or not active
Rejectable(c) ==
    \/ c = NoToken
    \/ c.sig # "JWT_SECRET"
    \/ now >= c.exp
    \/ c.id \notin Ids
    \/ users[c.id] = NoDoc
    \/ ~users[c.id].isActive

\* C7: every authenticated operation called with no credential, a malformed
\* or wrongly signed one, one past its validity, or one naming a profile
\* that is missing or inactive answers Unauthorized, returns nothing of a
\* profile and writes nothing; and no authenticated operation changes a
\* credential, so using one never extends its validity.
C7_RejectedCredentialUnauthorized ==
    [][response'.op \in AuthenticatedOps =>
          /\ held' = held
          /\ response'.token = NoToken
          /\ Rejectable(response'.cred) =>
                /\ response'.status = "Unauthorized"
                /\ response'.data = NoDoc
                /\ response'.pct = -1
                /\ response'.id = 0
                /\ users' = users]_vars

\* a credential that was used while valid is refused once it has expired
C7_Witness ==
    /\ response.op = "updateSkills"
    /\ response.status = "Unauthorized"
    /\ response.cred = held[1]
    /\ now >= held[1].exp
    /\ Len(users[1].skills) > 0

(***************************************************************************)
(* Properties of the completion score                                      *)
(***************************************************************************)
\* C8: in every stored profile the completion percentage is the score of
\* the stored snapshot and the completion flag is (percentage >= 80),
\* whatever requests and section updates have been handled.
C8_StoredScoreConsistent ==
    \A i \in Ids :
        users[i] # NoDoc =>
            /\ users[i].profileCompletionPercentage = Percentage(users[i])
            /\ users[i].profileCompleted =
                  (users[i].profileCompletionPercentage >= CompletedThreshold)

\* a section update has raised the stored score to 80 and set the flag
C8_Witness ==
    /\ response.op = "updateJobPreferences"
    /\ response.status = "ok"
    /\ users[1].profileCompletionPercentage = 80
    /\ users[1].profileCompleted
    /\ users[1].otp.attempts > 0

(***************************************************************************)
(* Properties of the section updates                                       *)
(***************************************************************************)
\* two entries of the list have the same priority
EqualPriorities(locs) ==
    \E k, l \in 1..Len(locs) : k # l /\ locs[k].priority = locs[l].priority

\* C13: a location-preferences update with more than 3 entries, or with two
\* entries of equal priority, answers ValidationFailed and leaves the stored
\* list, the relocation flag and the completion score as they were.
C13_LongOrDuplicateRejected ==
    [][\A locs \in LocationPayloads, w \in BOOLEAN :
          (/\ response'.op = "updateLocationPreferences"
           /\ Len(locs) > 3 \/ EqualPriorities(locs)
           /\ UpdateLocationPreferences(held[1], locs, w)) =>
              /\ response'.status = "ValidationFailed"
              /\ users'[1].preferredLocations = users[1].preferredLocations
              /\ users'[1].willingToRelocate = users[1].willingToRelocate
              /\ users'[1].profileCompletionPercentage =
                    users[1].profileCompletionPercentage
              /\ users'[1].profileCompleted = users[1].profileCompleted]_vars

\* C14: in every stored profile the preferred-location list has at most 3
\* entries and the priorities of its entries are pairwise distinct.
C14_StoredPrioritiesDistinct ==
    \A i \in Ids :
        users[i] # NoDoc =>
            /\ Len(users[i].preferredLocations) <= 3
            /\ ~EqualPriorities(users[i].preferredLocations)

\* C15: a personal-details update with a valid payload whose email is the
\* email of another profile answers Conflict and writes nothing; the same
\* update with the caller's own current email succeeds and stores the
\* payload.
C15_EmailOfAnotherProfile ==
    [][\A p \in PersonalPayloads :
          (/\ response'.op = "updatePersonalDetails"
           /\ PersonalDetailsValid(p)
           /\ p.email # ""
           /\ UpdatePersonalDetails(held[1], p)) =>
              /\ (\E j \in Ids \ {1} : users[j] # NoDoc /\ users[j].email = p.email) =>
                    /\ response'.status = "Conflict"
                    /\ users' = users
              /\ p.email = users[1].email =>
                    /\ response'.status = "ok"
                    /\ users'[1].email = users[1].email
                    /\ users'[1].fullName = p.fullName
                    /\ users'[1].city = p.city]_vars

\* the caller, who has an email of their own, asked for the email of the
\* other profile and kept what they had
C15_Witness ==
    /\ response.op = "updatePersonalDetails"
    /\ response.status = "Conflict"
    /\ users[1].email = "a@x.io"
    /\ users[1].fullName = "Asha Rao"
    /\ users[2].email = "b@x.io"

\* C16: no two stored profiles hold the same email, also when
\* personal-details updates of different profiles setting the same email
\* are interleaved between the conflict lookup and the write.
C16_EmailUnique ==
    \A i, j \in Ids :
        (i # j /\ users[i] # NoDoc /\ users[j] # NoDoc /\ users[i].email # "") =>
            users[i].email # users[j].email

\* two updates setting the same email both passed the lookup; the write of
\* the first was stored and the write of the second was refused by the index
C16_Witness ==
    /\ response.op = "updatePersonalDetails"
    /\ response.status = "Internal"
    /\ response.id = 2
    /\ users[1].email = "a@x.io"
    /\ users[2].email = ""

\* C17: no two stored profiles have the same phone number, and no request
\* removes a stored profile or changes its phone number.
C17_PhoneImmutableUnique ==
    /\ [](\A i, j \in Ids :
            (i # j /\ users[i] # NoDoc /\ users[j] # NoDoc) =>
                users[i].phoneNumber # users[j].phoneNumber)
    /\ [][\A i \in Ids :
            users[i] # NoDoc =>
                /\ users'[i] # NoDoc
                /\ users'[i].phoneNumber = users[i].phoneNumber]_vars

\* the profile has been through a challenge, a login and a personal-details
\* update, and still has the number it had
C17_Witness ==
    /\ response.op = "updatePersonalDetails"
    /\ response.status = "ok"
    /\ users[1].fullName = "Asha Rao"
    /\ users[1].otp.code # ""
    /\ users[1].lastLogin = now
    /\ users[1].phoneNumber = PhoneOf[1]
    /\ users[2].phoneNumber = PhoneOf[2]

SectionOps ==
    {"updatePersonalDetails", "updateLanguage", "updateLocationPreferences",
     "updateWorkAvailability", "updateNotificationSettings",
     "updateExperience", "updateSkills", "updateJobPreferences"}

\* the stored fields each section update is about
SectionFields(op) ==
    CASE op = "updatePersonalDetails" ->
            {"fullName", "city", "email", "dateOfBirth", "gender"}
      [] op = "updateLanguage" -> {"selectedLanguage"}
      [] op = "updateLocationPreferences" ->
            {"preferredLocations", "willingToRelocate"}
      [] op = "updateWorkAvailability" -> {"workAvailability"}
      [] op = "updateNotificationSettings" -> {"notificationSettings"}
      [] op = "updateExperience" -> {"experienceLevel", "totalExperienceYears"}
      [] op = "updateSkills" -> {"skills"}
      [] op = "updateJobPreferences" -> {"jobCategories", "accommodationRequired"}

DerivedFields == {"profileCompletionPercentage", "profileCompleted"}

\* the value of a field after an update that supplied it or not
Kept(old, supplied, new) == IF supplied.given THEN supplied.value = new ELSE old = new

\* the step is a successful section update
SectionUpdated == response'.op \in SectionOps /\ response'.status = "ok"
Updated(op) == response'.op = op /\ response'.status = "ok"

C19_ReturnsSectionAndScore ==
    (response.op \in SectionOps /\ response.status = "ok") =>
        /\ \A f \in SectionFields(response.op) :
              response.data[f] = users[response.id][f]
        /\ response.pct = users[response.id].profileCompletionPercentage
        /\ response.pct = Percentage(users[response.id])

\* the ten predicates of the scorer
ScoredFields ==
    {"fullName", "email", "dateOfBirth", "gender", "city",
     "preferredLocations", "workAvailability", "experienceLevel", "skills",
     "jobCategories"}

Satisfied(doc, f) ==
    CASE f = "fullName" -> doc.fullName # ""
      [] f = "email" -> doc.email # ""
      [] f = "dateOfBirth" -> doc.dateOfBirth # ""
      [] f = "gender" -> doc.gender # ""
      [] f = "city" -> doc.city # ""
      [] f = "preferredLocations" -> doc.preferredLocations # <<>>
      [] f = "workAvailability" -> doc.workAvailability # {}
      [] f = "experienceLevel" -> doc.experienceLevel # ""
      [] f = "skills" -> doc.skills # <<>>
      [] f = "jobCategories" -> doc.jobCategories # {}

SatisfiedCount(doc) == Cardinality({f \in ScoredFields : Satisfied(doc, f)})

\* C9: for every snapshot the scorer gives percentage = round(k/10 x 100),
\* k the number of the 10 predicates satisfied, and completed =
\* (percentage >= 80): 3 satisfied give 30 and false, 8 give 80 and true.
C9_ScoreFormula ==
    response.op = "score" =>
        LET k == SatisfiedCount(users[1])
            pct == users[1].profileCompletionPercentage
        IN /\ pct = 10 * k
           /\ 2 * (10 * pct - 100 * k) <= 10
           /\ 2 * (100 * k - 10 * pct) < 10
           /\ response.pct = pct
           /\ users[1].profileCompleted = (pct >= 80)
           /\ k = 3 => pct = 30 /\ ~users[1].profileCompleted
           /\ k = 8 => pct = 80 /\ users[1].profileCompleted

\* a snapshot with exactly 8 predicates satisfied has been scored
C9_Witness ==
    /\ response.op = "score"
    /\ SatisfiedCount(users[1]) = 8
    /\ users[1].profileCompletionPercentage = 80
    /\ users[1].profileCompleted

(***************************************************************************)
(* Re-issue, precedence of the failure reasons, what answers disclose      *)
(***************************************************************************)
\* the step is a send-otp or resend-otp request that found profile i
IssueStepOn(i) ==
    /\ response'.op \in {"requestChallenge", "resendChallenge"}
    /\ users[i] # NoDoc
    /\ response'.phone = users[i].phoneNumber

\* C21: a send-otp or resend-otp request for a stored profile is never
\* refused, whatever state the profile's challenge is in (none, pending,
\* expired, exhausted, cleared by a verification): it leaves one pending
\* challenge with the generated code, no attempts and an expiry 10 minutes
\* ahead, which allows 3 attempts again.
C21_IssueAlwaysReplaces ==
    [][\A i \in Ids :
          IssueStepOn(i) =>
              /\ response'.status = "ok"
              /\ response'.sent.code \in Codes
              /\ users'[i].otp =
                    [code |-> response'.sent.code,
                     expiresAt |-> now + OtpTtlMinutes, attempts |-> 0]
              /\ MaxOtpAttempts - users'[i].otp.attempts = MaxOtpAttempts]_vars

\* a profile whose phone was verified, and so has no challenge, has asked
\* for a code again at a later minute
C21_Witness ==
    /\ response.op = "resendChallenge"
    /\ response.status = "ok"
    /\ users[1].isPhoneVerified
    /\ users[1].otp.code = response.sent.code
    /\ users[1].otp.attempts = 0
    /\ users[1].otp.expiresAt = now + OtpTtlMinutes
    /\ now > 0

(***************************************************************************)
(* Interleaved verifications of one challenge                              *)
(***************************************************************************)
\* the step is the save and the answer of the waiting verify-otp request r
VerifyAnswered(r) ==
    /\ inflight[r] # NoRequest
    /\ inflight[r].op = "verifyChallenge"
    /\ inflight'[r] = NoRequest

\* C22: the attempt counter is exposed to lost updates: a verify-otp
\* request answered InvalidCode stores the counter it read plus 1, whatever
\* the store holds by then, so two requests that both read the record
\* before either writes raise the counter by 1, not 2, and the profile of
\* a challenge can get more than 3 InvalidCode answers: after the save of
\* one, the other is about to store the value the counter already has.
C22_CounterWrittenFromRead ==
    [][\A r \in Reqs :
          (VerifyAnswered(r) /\ response'.status = "InvalidCode") =>
              LET q == inflight[r]
                  i == q.loaded.id
              IN /\ users'[i].otp.attempts = q.loaded.otp.attempts + 1
                 /\ \A s \in Reqs \ {r} :
                       (/\ inflight[s] # NoRequest
                        /\ inflight[s].loaded = q.loaded
                        /\ inflight[s].result = "InvalidCode") =>
                           inflight'[s].doc.otp.attempts
                               = users'[i].otp.attempts]_vars

\* one challenge has got more than 3 InvalidCode answers and its stored
\* counter is still below 3
C22_Witness ==
    /\ response.op = "verifyChallenge"
    /\ response.status = "InvalidCode"
    /\ hist[1].invalid > MaxOtpAttempts
    /\ users[1].otp.code = hist[1].lastCode
    /\ users[1].otp.attempts < MaxOtpAttempts

\* C23: for one issued challenge at most one verify-otp request succeeds
\* and at most one credential is minted from it, also when the requests
\* are interleaved between their read and their write.
C23_OneSuccessPerChallenge ==
    [][\A i \in Ids :
          (VerifyStepOn(i) /\ (response'.status = "ok" \/ held'[i] # held[i]
                                 \/ response'.token # NoToken)) =>
              hist[i].usedCode = ""]_vars

NoChallengeInAnswer(resp) ==
    /\ resp.otp = ""
    /\ "otp" \in DOMAIN resp.data => resp.data.otp = NoOtp

\* what verify-otp answers in the step, had the pending challenge of
\* profile i held code c
VerifyAnswerWith(i, c) ==
    verifyOTP([users[i] EXCEPT !.otp.code = c], response'.code, now).message

Matches(i) ==
    /\ users[i].otp.code # ""
    /\ ~(users[i].otp.expiresAt < now)
    /\ users[i].otp.attempts < MaxOtpAttempts
    /\ response'.code = users[i].otp.code

C27_DeactivatedIsLockedOut ==
    [][\A i \in Ids :
          (users[i] # NoDoc /\ ~users[i].isActive) =>
              /\ ~users'[i].isActive
              /\ (response'.op \in AuthenticatedOps
                    /\ response'.cred \in {NoToken, held[i]}) =>
                    /\ response'.status = "Unauthorized"
                    /\ response'.data = NoDoc
                    /\ users' = users]_vars

\* a deactivated profile has verified a code and holds the credential
\* minted for it, and a section update presenting it was refused
C27_Witness ==
    /\ ~users[1].isActive
    /\ users[1].isPhoneVerified
    /\ held[1] # NoToken
    /\ response.op = "updatePersonalDetails"
    /\ response.cred = held[1]
    /\ response.status = "Unauthorized"
    /\ users[1].email = ""

\* C28: the phone-verified flag becomes true only in a verify-otp request
\* whose code matched, and once true it stays true through every
\* operation: re-issue, failed verification, the passing of the expiry,
\* profile reads and section updates.
C28_PhoneVerifiedMonotone ==
    [][\A i \in Ids :
          users[i] # NoDoc =>
              /\ users[i].isPhoneVerified => users'[i].isPhoneVerified
              /\ (~users[i].isPhoneVerified /\ users'[i].isPhoneVerified) =>
                    /\ VerifyStepOn(i)
                    /\ response'.status = "ok"
                    /\ Matches(i)]_vars

\* a verified profile has filled in its personal details, asked for a new
\* code, let it expire and presented it: the flag is still true
C28_Witness ==
    /\ users[1].isPhoneVerified
    /\ users[1].email # ""
    /\ response.op = "verifyChallenge"
    /\ response.status = "Expired"
    /\ hist[1].prevCode # ""
    /\ users[1].otp.code = hist[1].lastCode

(***************************************************************************)
(* Dispatch of the code                                                    *)
(***************************************************************************)
\* the challenge send-otp or resend-otp stores at the current time with
\* code c
Issued(c) == [code |-> c, expiresAt |-> now + OtpTtlMinutes, attempts |-> 0]

\* C29: send-otp and resend-otp hand a message to the dispatcher only when
\* the new challenge has been stored, and the message then carries the
\* stored code and the phone number and channel of the request; when the
\* challenge is not stored, nothing is dispatched, the request fails and
\* the store is as it was.
C29_DispatchAfterPersist ==
    [][response'.op \in {"requestChallenge", "resendChallenge"} =>
          IF response'.sent # NoSend
          THEN /\ response'.status = "ok"
               /\ response'.sent.code \in Codes
               /\ response'.sent.to = response'.phone
               /\ response'.sent.channel = response'.method
               /\ \E i \in Ids :
                     /\ users'[i] # NoDoc
                     /\ users'[i].phoneNumber = response'.phone
                     /\ users'[i].otp = Issued(response'.sent.code)
          ELSE /\ response'.status \in {"Internal", "NotFound"}
               /\ users' = users]_vars

\* the save of a send-otp request has failed: the request was answered with
\* an error and no message was handed to the dispatcher
C29_Witness ==
    /\ response.op = "requestChallenge"
    /\ response.status = "Internal"
    /\ response.sent = NoSend
    /\ FindByPhone(response.phone) = NoDoc
    /\ users[1].otp.code # ""

(***************************************************************************)
(* The stored completion percentage over time                              *)
(***************************************************************************)
\* the predicates of the scorer no request can make false again
LastingFields == ScoredFields \ {"skills", "jobCategories"}

\* C30: the stored completion percentage of a profile goes down only in an
\* accepted skills or job-preferences update that replaces a list with an
\* empty one; each of the other eight predicates (full name, email, birth
\* date, gender, city, preferred locations, work availability, experience
\* level), once satisfied in the store, stays satisfied.
C30_PercentageDecreasesOnlyByEmptyList ==
    [][\A i \in Ids :
          users[i] # NoDoc =>
              /\ users'[i] # NoDoc
              /\ \A f \in LastingFields :
                    Satisfied(users[i], f) => Satisfied(users'[i], f)
              /\ (users'[i].profileCompletionPercentage
                    < users[i].profileCompletionPercentage) =>
                    /\ response'.status = "ok"
                    /\ response'.id = i
                    /\ \/ /\ response'.op = "updateSkills"
                          /\ users[i].skills # <<>>
                          /\ users'[i].skills = <<>>
                       \/ /\ response'.op = "updateJobPreferences"
                          /\ users[i].jobCategories # {}
                          /\ users'[i].jobCategories = {}]_vars

\* a skills update with an empty list was accepted on a profile whose other
\* nine predicates are satisfied, and the stored percentage is 90
C30_Witness ==
    /\ response.op = "updateSkills"
    /\ response.status = "ok"
    /\ users[1].skills = <<>>
    /\ \A f \in ScoredFields \ {"skills"} : Satisfied(users[1], f)
    /\ users[1].profileCompletionPercentage = 90
    /\ response.pct = 90

(***************************************************************************)
(* Logout                                                                  *)
(***************************************************************************)
\* C31: logout is answered with success whatever credential it is given,
\* or none, and changes nothing in the store; a credential presented to
\* logout is accepted afterwards by every route behind auth as long as it
\* has not expired and its profile is stored and active.
C31_LogoutChangesNothing ==
    [][/\ response'.op = "logout" =>
             /\ response'.status = "ok"
             /\ response'.token = NoToken
             /\ users' = users
             /\ held' = held
             /\ now' = now
       /\ \A i \in Ids :
             (/\ response'.op \in AuthenticatedOps
              /\ hist[i].loggedOut
              /\ response'.cred = held[i]
              /\ JwtVerify(held[i], now)
              /\ users[i] # NoDoc
              /\ users[i].isActive) =>
                 /\ response'.status # "Unauthorized"
                 /\ response'.id = i]_vars

\* the credential of profile 1 was presented to logout, and in the last
\* minute of its validity a section update presenting it was accepted
C31_Witness ==
    /\ hist[1].loggedOut
    /\ response.op = "updatePersonalDetails"
    /\ response.cred = held[1]
    /\ response.status = "ok"
    /\ now = JwtExpireMinutes - 1
    /\ users[1].email = "a@x.io"

====
